---- MODULE Spec2Model ----
(***************************************************************************)
(* hdget: a poller that scrapes a ranked leaderboard, diffs it against the *)
(* last accepted leaderboard (the baseline), sends one message per new     *)
(* personal best and keeps the baseline in a binary cache file.            *)
(*                                                                         *)
(* Sources: src/src/lb.rs (Entry, Leaderboard, Pb) and src/src/main.rs.    *)
(*                                                                         *)
(* Conventions                                                             *)
(*   Option<T>      a sequence of length 0 (None) or 1 (Some(x))           *)
(*   String         its UTF-8 bytes, a sequence over 0..255                *)
(*   f32            the 4 bytes of its IEEE-754 bit pattern, lowest first  *)
(*   Duration       [secs, nanos]                                          *)
(*   io::Result     [tag |-> "ok" | "err" | "panic", ...]; "panic" is the  *)
(*                  unwinding of the thread, not a value the caller sees   *)
(***************************************************************************)
EXTENDS Integers, Sequences, FiniteSets, TLC

VARIABLES
    pc,      \* position of the running code
    old,     \* Option<Leaderboard>: the baseline (main.rs `old`)
    new,     \* Option<Leaderboard>: the freshly obtained leaderboard (`new`)
    pbs,     \* Vec<Pb>: the result of the last diff
    idx,     \* number of elements of pbs already handed to the hook
    disk,    \* Option<bytes>: the file "cache" (None: no such file)
    loaded,  \* the result of the last Leaderboard::from_cache
    saved,   \* the result of the last Leaderboard::cache
    site,    \* the result of the last Leaderboard::from_site
    sent,    \* every message the hook accepted, oldest first, each with the
             \* cycle it was sent in and the baseline it was diffed against
    cycles,  \* loop iterations started so far
    exit,    \* how the process ended ("running" while it has not)
    hook     \* the result of the last hook.send

vars == <<pc, old, new, pbs, idx, disk, loaded, saved, site, sent, cycles, exit, hook>>

-----------------------------------------------------------------------------
(* Bounds of the model *)

\* Number of distinct participants (user_id values) in the diff inputs.
MaxUser == 2

\* The number of entries of the persisted form.  The code's constant is 1000
\* (lb.rs:152 and lb.rs:166); the model runs the same loops over a shorter file.
CacheEntries == 2

\* Loop iterations of main the model follows.
MaxCycles == 3

-----------------------------------------------------------------------------
(* Options and small helpers *)

None == <<>>
Some(x) == <<x>>
IsSome(o) == Len(o) = 1
Unwrap(o) == o[1]

-----------------------------------------------------------------------------
(* Fixed-width little-endian integers: write_u16_le/u32_le/u64_le and the   *)
(* matching reads                                                          *)

\* n as w little-endian bytes; like the Rust writers, only the low 8*w bits.
\* (The model keeps every integer below 2^31.)
RECURSIVE ToLE(_, _)
ToLE(n, w) == IF w = 0 THEN <<>> ELSE <<n % 256>> \o ToLE(n \div 256, w - 1)

RECURSIVE FromLE(_)
FromLE(b) == IF Len(b) = 0 THEN 0 ELSE b[1] + 256 * FromLE(Tail(b))

\* `x as u8`
AsU8(n) == n % 256

-----------------------------------------------------------------------------
(* f32 values: the four bytes of the IEEE-754 bit pattern, lowest first, as *)
(* write_f32_le puts them and read_f32_le takes them                        *)

F32Sign(f) == f[4] \div 128
F32Exp(f)  == (f[4] % 128) * 2 + f[3] \div 128
F32Man(f)  == (f[3] % 128) * 65536 + f[2] * 256 + f[1]
F32IsNaN(f) == F32Exp(f) = 255 /\ F32Man(f) # 0
F32Mag(f)  == (f[4] % 128) * 16777216 + f[3] * 65536 + f[2] * 256 + f[1]

\* a > b on f32: false when either is NaN, -0.0 equals +0.0.  A value with
\* the sign bit clear is above one with the sign bit set unless both are zero.
F32Gt(a, b) ==
    /\ ~F32IsNaN(a)
    /\ ~F32IsNaN(b)
    /\ IF F32Sign(a) = 0
       THEN IF F32Sign(b) = 0 THEN F32Mag(a) > F32Mag(b)
                              ELSE F32Mag(a) > 0 \/ F32Mag(b) > 0
       ELSE F32Sign(b) = 1 /\ F32Mag(a) < F32Mag(b)

\* 400.0f32 = 0x43C80000
F400 == <<0, 0, 200, 67>>
\* 399.0f32 = 0x43C78000 and 410.0f32 = 0x43CD0000, the scores of test_pb
F399 == <<0, 128, 199, 67>>
F410 == <<0, 0, 205, 67>>
\* f32::NAN = 0x7FC00000
FNaN == <<0, 0, 192, 127>>

-----------------------------------------------------------------------------
(* String::from_utf8: is this byte sequence well-formed UTF-8? *)

\* A continuation byte, 0x80..0xBF.
Cont(b) == b >= 128 /\ b <= 191

\* The length of the character a first byte announces (0: no character starts
\* with this byte).
CharLen(b) ==
    IF b <= 127 THEN 1
    ELSE IF b >= 194 /\ b <= 223 THEN 2
    ELSE IF b >= 224 /\ b <= 239 THEN 3
    ELSE IF b >= 240 /\ b <= 244 THEN 4
    ELSE 0

\* The second byte of a character, which the first byte narrows (no overlong
\* forms, no surrogates, nothing above U+10FFFF).
Second(b, c) ==
    IF b = 224 THEN c >= 160 /\ c <= 191
    ELSE IF b = 237 THEN c >= 128 /\ c <= 159
    ELSE IF b = 240 THEN c >= 144 /\ c <= 191
    ELSE IF b = 244 THEN c >= 128 /\ c <= 143
    ELSE Cont(c)

\* t is a sequence of whole characters: it does not start inside one, and
\* every byte that is not a continuation byte starts a character that is all
\* there and is followed by the start of the next.
Utf8Valid(t) ==
    LET n == Len(t)
    IN  /\ n > 0 => ~Cont(t[1])
        /\ \A i \in 1..n :
              ~Cont(t[i]) =>
                 LET len == CharLen(t[i])
                 IN  /\ len > 0
                     /\ i + len - 1 <= n
                     /\ len >= 2 => Second(t[i], t[i + 1])
                     /\ \A j \in (i + 2)..(i + len - 1) : Cont(t[j])
                     /\ i + len <= n => ~Cont(t[i + len])

-----------------------------------------------------------------------------
(* Entry and its codec (lb.rs:14-63) *)

Entry(rank, name, user_id, run_id, score) ==
    [rank |-> rank, name |-> name, user_id |-> user_id, run_id |-> run_id,
     score |-> score]

\* Entry::write into a buffer: the bytes it appends.
EntryWrite(e) ==
    ToLE(e.rank, 2)
    \o <<AsU8(Len(e.name))>>
    \o e.name
    \o ToLE(e.user_id, 4)
    \o ToLE(e.run_id, 4)
    \o e.score

\* Entry::read from the bytes b, starting after the first p of them.  Each read
\* that finds too few bytes left ends the function with Err (UnexpectedEof);
\* String::from_utf8(t).unwrap() panics on bytes that are not UTF-8.
EntryRead(b, p) ==
    LET n == Len(b)
        err == [tag |-> "err", entry |-> None, pos |-> p]
        panic == [tag |-> "panic", entry |-> None, pos |-> p]
    IN  IF p + 2 > n THEN err
        ELSE IF p + 3 > n THEN err
        ELSE LET len == b[p + 3]
                 q == p + 3 + len
             IN  IF q > n THEN err
                 ELSE LET t == SubSeq(b, p + 4, q)
                      IN  IF ~Utf8Valid(t) THEN panic
                          ELSE IF q + 4 > n THEN err
                          ELSE IF q + 8 > n THEN err
                          ELSE IF q + 12 > n THEN err
                          ELSE [tag |-> "ok",
                                entry |-> Some(Entry(
                                    FromLE(SubSeq(b, p + 1, p + 2)),
                                    t,
                                    FromLE(SubSeq(b, q + 1, q + 4)),
                                    FromLE(SubSeq(b, q + 5, q + 8)),
                                    SubSeq(b, q + 9, q + 12))),
                                pos |-> q + 12]

same_user(a, b) == a.user_id = b.user_id

-----------------------------------------------------------------------------
(* Leaderboard and the cache file (lb.rs:70-178) *)

Duration(secs, nanos) == [secs |-> secs, nanos |-> nanos]
from_secs(s) == Duration(s, 0)
as_secs(d) == d.secs

Leaderboard(timestamp, entries) == [timestamp |-> timestamp, entries |-> entries]

\* The loop of from_cache: read `left` more entries from position p.
RECURSIVE ReadEntries(_, _, _, _)
ReadEntries(b, p, left, acc) ==
    IF left = 0 THEN [tag |-> "ok", entries |-> acc]
    ELSE LET r == EntryRead(b, p)
         IN  IF r.tag = "ok"
             THEN ReadEntries(b, r.pos, left - 1, Append(acc, Unwrap(r.entry)))
             ELSE [tag |-> r.tag, entries |-> <<>>]

\* Mutant of from_cache: the end of the file ends the loop instead of the
\* function, and what was read so far is returned.
RECURSIVE ReadEntries_Short(_, _, _, _)
ReadEntries_Short(b, p, left, acc) ==
    IF left = 0 THEN [tag |-> "ok", entries |-> acc]
    ELSE LET r == EntryRead(b, p)
         IN  IF r.tag = "ok"
             THEN ReadEntries_Short(b, r.pos, left - 1, Append(acc, Unwrap(r.entry)))
             ELSE IF r.tag = "err" THEN [tag |-> "ok", entries |-> acc]
             ELSE [tag |-> r.tag, entries |-> <<>>]

from_cache_Short(d) ==
    IF ~IsSome(d) THEN [tag |-> "err", lb |-> None]
    ELSE LET b == Unwrap(d)
         IN  IF Len(b) < 8 THEN [tag |-> "err", lb |-> None]
             ELSE LET r == ReadEntries_Short(b, 8, CacheEntries, <<>>)
                  IN  IF r.tag = "ok"
                      THEN [tag |-> "ok",
                            lb |-> Some(Leaderboard(
                                from_secs(FromLE(SubSeq(b, 1, 8))), r.entries))]
                      ELSE [tag |-> r.tag, lb |-> None]

\* Leaderboard::from_cache on the file d (None: the file does not exist).
from_cache(d) ==
    IF ~IsSome(d) THEN [tag |-> "err", lb |-> None]
    ELSE LET b == Unwrap(d)
         IN  IF Len(b) < 8 THEN [tag |-> "err", lb |-> None]
             ELSE LET r == ReadEntries(b, 8, CacheEntries, <<>>)
                  IN  IF r.tag = "ok"
                      THEN [tag |-> "ok",
                            lb |-> Some(Leaderboard(
                                from_secs(FromLE(SubSeq(b, 1, 8))), r.entries))]
                      ELSE [tag |-> r.tag, lb |-> None]

\* The bytes Leaderboard::cache has put into its writer once it has written the
\* timestamp and the first k entries.
RECURSIVE EntriesBytes(_, _)
EntriesBytes(es, k) ==
    IF k = 0 THEN <<>> ELSE EntriesBytes(es, k - 1) \o EntryWrite(es[k])

CacheBytes(lb, k) == ToLE(as_secs(lb.timestamp), 8) \o EntriesBytes(lb.entries, k)

\* Leaderboard::cache with no I/O error.  The loop indexes
\* entries[0..CacheEntries] and panics on the first index past the end; `written`
\* is what the writer was given by then.  On "ok" flush has put all of it in the
\* file.
cache(lb) ==
    IF Len(lb.entries) < CacheEntries
    THEN [tag |-> "panic", written |-> CacheBytes(lb, Len(lb.entries))]
    ELSE [tag |-> "ok", written |-> CacheBytes(lb, CacheEntries)]

\* What the file can hold when cache did not reach the end of its flush:
\* File::create has emptied it, and the buffered writer has passed on some
\* prefix of what it was given.
Prefixes(b) == {SubSeq(b, 1, k) : k \in 0..Len(b)}

\* Every way Leaderboard::cache can end on the file d: as cache(lb) says; or
\* with Err from File::create (the file is as it was) or from a write or the
\* flush (the file holds a prefix of what was written).
CacheOutcomes(lb, d) ==
    LET r == cache(lb)
    IN  (IF r.tag = "ok"
         THEN {[tag |-> "ok", disk |-> Some(r.written)]}
         ELSE {[tag |-> "panic", disk |-> Some(b)] : b \in Prefixes(r.written)})
        \cup {[tag |-> "err", disk |-> d]}
        \cup {[tag |-> "err", disk |-> Some(b)] : b \in Prefixes(r.written)}

-----------------------------------------------------------------------------
(* Pb and the diff (lb.rs:180-210) *)

Pb(o, n) == [old |-> o, new |-> n]

\* old.iter().map(|e| (e.user_id, e)).collect::<HashMap>(): a later entry with
\* the same key replaces an earlier one.
Collect(es) ==
    [u \in {es[i].user_id : i \in 1..Len(es)} |->
        es[CHOOSE i \in 1..Len(es) :
              /\ es[i].user_id = u
              /\ \A j \in 1..Len(es) : es[j].user_id = u => j <= i]]

MapRemove(m, k) == [u \in DOMAIN m \ {k} |-> m[u]]

\* Mutants of DiffOne: the `continue` left out; the wrong field compared; the
\* else branch left out; the baseline entry not passed on.
DiffOne_NoSuppress(found, n) ==
    IF IsSome(found) THEN <<Pb(found, n)>> ELSE <<Pb(None, n)>>

DiffOne_ByScore(found, n) ==
    IF IsSome(found)
    THEN IF n.score = Unwrap(found).score THEN <<>>
         ELSE <<Pb(found, n)>>
    ELSE <<Pb(None, n)>>

DiffOne_DropNew(found, n) ==
    IF IsSome(found)
    THEN IF n.run_id = Unwrap(found).run_id THEN <<>>
         ELSE <<Pb(found, n)>>
    ELSE <<>>

DiffOne_LoseOld(found, n) ==
    IF IsSome(found)
    THEN IF n.run_id = Unwrap(found).run_id THEN <<>>
         ELSE <<Pb(None, n)>>
    ELSE <<Pb(None, n)>>

\* The decision diff takes for one entry of `new`, given the map's answer.
DiffOne(found, n) ==
    IF IsSome(found)
    THEN IF n.run_id = Unwrap(found).run_id THEN <<>>
         ELSE <<Pb(found, n)>>
    ELSE <<Pb(None, n)>>

\* Mutant of DiffLoop: events put at the front of the vector.
RECURSIVE DiffLoop_Prepend(_, _, _, _)
DiffLoop_Prepend(m, ns, i, acc) ==
    IF i > Len(ns) THEN acc
    ELSE LET n == ns[i]
             found == IF n.user_id \in DOMAIN m THEN Some(m[n.user_id]) ELSE None
         IN  DiffLoop_Prepend(MapRemove(m, n.user_id), ns, i + 1,
                              DiffOne(found, n) \o acc)

\* The for loop of Pb::diff from its i-th iteration on.
RECURSIVE DiffLoop(_, _, _, _)
DiffLoop(m, ns, i, acc) ==
    IF i > Len(ns) THEN acc
    ELSE LET n == ns[i]
             found == IF n.user_id \in DOMAIN m THEN Some(m[n.user_id]) ELSE None
         IN  DiffLoop(MapRemove(m, n.user_id), ns, i + 1, acc \o DiffOne(found, n))

\* Mutant of diff: what is left in the map is reported too.
diff_ReportGone(os, ns) ==
    LET gone == SelectSeq(os, LAMBDA o : \A j \in 1..Len(ns) : ns[j].user_id # o.user_id)
    IN  DiffLoop(Collect(os), ns, 1, <<>>)
        \o [k \in 1..Len(gone) |-> Pb(Some(gone[k]), gone[k])]

\* Pb::diff
diff(os, ns) == DiffLoop(Collect(os), ns, 1, <<>>)

\* Leaderboard::pbs
lbpbs(o, n) == diff(o.entries, n.entries)

-----------------------------------------------------------------------------
(* impl Display for Pb (lb.rs:212-250): the text as the sequence of its      *)
(* lines, one per writeln!.  A line is [line |-> which, args |-> the values   *)
(* put into it]; the score line of a known participant shows new.score -     *)
(* old.score, kept here as its two operands.                                 *)

\* Two independent ifs where the code has if / else if.
BannerLines_Both(o, n) ==
    (IF n.rank = 1 THEN <<[line |-> "NEW WORLD RECORD", args |-> <<>>]>> ELSE <<>>)
    \o (IF F32Gt(n.score, F400) /\ F32Gt(F400, o.score)
        THEN <<[line |-> "NEW 400", args |-> <<>>]>> ELSE <<>>)

\* lb.rs:215-219
BannerLines(o, n) ==
    IF n.rank = 1
    THEN <<[line |-> "NEW WORLD RECORD", args |-> <<>>]>>
    ELSE IF F32Gt(n.score, F400) /\ F32Gt(F400, o.score)
         THEN <<[line |-> "NEW 400", args |-> <<>>]>>
         ELSE <<>>

\* u16::wrapping_sub where the code has checked_sub.
checked_sub_Wrapping(a, b) == Some((a - b) % 65536)

\* old.rank.checked_sub(self.new.rank) on u16
checked_sub(a, b) == IF a >= b THEN Some(a - b) ELSE None

\* lb.rs:229-237
RankLine(o, n) ==
    LET sub == checked_sub(o.rank, n.rank)
    IN  IF IsSome(sub)
        THEN [line |-> "rank gaining", args |-> <<n.rank, Unwrap(sub)>>]
        ELSE [line |-> "rank", args |-> <<n.rank>>]

fmt(pb) ==
    LET n == pb.new
    IN  (IF IsSome(pb.old)
         THEN LET o == Unwrap(pb.old)
              IN  BannerLines(o, n)
                  \o <<[line |-> "score plus", args |-> <<n.name, n.score, <<n.score, o.score>>>>]>>
                  \o <<RankLine(o, n)>>
         ELSE <<[line |-> "score", args |-> <<n.name, n.score>>],
                [line |-> "rank", args |-> <<n.rank>>]>>)
        \o <<[line |-> "watch", args |-> <<n.run_id>>]>>

-----------------------------------------------------------------------------
(* The diff on its own: SpecDiff draws a baseline and a current leaderboard  *)
(* and applies Leaderboard::pbs to them.                                    *)

Runs == {1, 2}
Scores == {F399, F410}
NameOf(u) == <<96 + u>>

\* Every way to extend the entry list s by one row; the site numbers the rows.
Extend(s, users) ==
    {Append(s, Entry(Len(s) + 1, NameOf(u), u, r, sc)) :
        u \in users, r \in Runs, sc \in Scores}

UsersOf(es) == {es[i].user_id : i \in 1..Len(es)}

\* The data-model invariant of a snapshot: one entry per participant.
UniqueUsers(es) ==
    \A i, j \in 1..Len(es) : es[i].user_id = es[j].user_id => i = j

\* Entry lists of length n with one entry per participant.
RECURSIVE UniqueLists(_)
UniqueLists(n) ==
    IF n = 0 THEN {<<>>}
    ELSE UNION {Extend(s, (1..MaxUser) \ UsersOf(s)) : s \in UniqueLists(n - 1)}

\* Two rows for the same participant: what the code accepts, though the data
\* model rules it out.
DupLists == UNION {Extend(s, UsersOf(s)) : s \in UniqueLists(1)}

DiffInputs == UNION {UniqueLists(n) : n \in 0..MaxUser} \cup DupLists

Idle ==
    /\ pbs = <<>>
    /\ idx = 0
    /\ disk = None
    /\ loaded = [tag |-> "none", lb |-> None]
    /\ saved = "none"
    /\ site = "none"
    /\ sent = <<>>
    /\ cycles = 0
    /\ exit = "running"
    /\ hook = "none"

InitDiff ==
    /\ pc = "diff"
    /\ \E o \in DiffInputs : old = Some(Leaderboard(from_secs(0), o))
    /\ \E n \in DiffInputs : new = Some(Leaderboard(from_secs(600), n))
    /\ Idle

\* let pbs = old.pbs(&new);
RunDiff ==
    /\ pc = "diff"
    /\ pbs' = lbpbs(Unwrap(old), Unwrap(new))
    /\ pc' = "diffed"
    /\ UNCHANGED <<old, new, idx, disk, loaded, saved, site, sent, cycles, exit, hook>>

NextDiff == RunDiff

SpecDiff == InitDiff /\ [][NextDiff]_vars

\* What the properties of the diff speak of.
Diffed == pc = "diffed"
Baseline == Unwrap(old).entries
Current == Unwrap(new).entries
Snapshots == UniqueUsers(Baseline) /\ UniqueUsers(Current)

\* The events whose current entry is participant u's, and those that mention u
\* at all.
EventsFor(u) == {k \in 1..Len(pbs) : pbs[k].new.user_id = u}
EventsNaming(u) ==
    {k \in 1..Len(pbs) :
        \/ pbs[k].new.user_id = u
        \/ IsSome(pbs[k].old) /\ Unwrap(pbs[k].old).user_id = u}

\* C1 (diff identity): the diff of a snapshot with one entry per participant
\* against itself is empty.
C1_DiffIdentity ==
    (Diffed /\ Baseline = Current /\ UniqueUsers(Current)) => pbs = <<>>

C1_Witness ==
    /\ Diffed
    /\ Baseline = Current
    /\ UniqueUsers(Current)
    /\ Len(Current) >= 2
    /\ pbs = <<>>

\* C2 (same-run suppression): a participant who is in both snapshots with the
\* same run_id gets no event, whatever score and rank the two entries have.
C2_SameRunSuppressed ==
    (Diffed /\ Snapshots) =>
        \A i \in 1..Len(Baseline), j \in 1..Len(Current) :
            (/\ Baseline[i].user_id = Current[j].user_id
             /\ Baseline[i].run_id = Current[j].run_id)
            => EventsNaming(Current[j].user_id) = {}

C2_Witness ==
    /\ Diffed
    /\ Snapshots
    /\ pbs # <<>>
    /\ \E i \in 1..Len(Baseline), j \in 1..Len(Current) :
          /\ Baseline[i].user_id = Current[j].user_id
          /\ Baseline[i].run_id = Current[j].run_id
          /\ Baseline[i].score # Current[j].score
          /\ Baseline[i].rank # Current[j].rank
          /\ EventsNaming(Current[j].user_id) = {}

\* C3 (new participant): a user_id in the current snapshot and not in the
\* baseline gets exactly one event, with no previous entry and with its current
\* entry.
C3_NewParticipant ==
    (Diffed /\ Snapshots) =>
        \A j \in 1..Len(Current) :
            Current[j].user_id \notin UsersOf(Baseline)
            => /\ Cardinality(EventsFor(Current[j].user_id)) = 1
               /\ \A k \in EventsFor(Current[j].user_id) :
                     pbs[k] = Pb(None, Current[j])

C3_Witness ==
    /\ Diffed
    /\ Snapshots
    /\ Baseline # <<>>
    /\ \E j \in 1..Len(Current) :
          /\ Current[j].user_id \notin UsersOf(Baseline)
          /\ \E k \in 1..Len(pbs) : pbs[k] = Pb(None, Current[j])

\* C4 (changed run): a participant in both snapshots with different run_id
\* gets exactly one event, from its baseline entry to its current entry.
C4_ChangedRun ==
    (Diffed /\ Snapshots) =>
        \A i \in 1..Len(Baseline), j \in 1..Len(Current) :
            (/\ Baseline[i].user_id = Current[j].user_id
             /\ Baseline[i].run_id # Current[j].run_id)
            => /\ Cardinality(EventsFor(Current[j].user_id)) = 1
               /\ \A k \in EventsFor(Current[j].user_id) :
                     pbs[k] = Pb(Some(Baseline[i]), Current[j])

\* The shape of test_pb: two entries that swap places, the new leader with a
\* new run and the other with the run it had.
C4_Witness ==
    /\ Diffed
    /\ Snapshots
    /\ Len(Baseline) = 2
    /\ Len(Current) = 2
    /\ Baseline[2].user_id = Current[1].user_id
    /\ Baseline[2].run_id # Current[1].run_id
    /\ Baseline[1].user_id = Current[2].user_id
    /\ Baseline[1].run_id = Current[2].run_id
    /\ pbs = <<Pb(Some(Baseline[2]), Current[1])>>

\* C5 (diff ordering): the current entries of the events, in order, are the
\* current snapshot's entries of the participants that have an event.
C5_DiffOrdering ==
    (Diffed /\ Snapshots) =>
        [k \in 1..Len(pbs) |-> pbs[k].new]
            = SelectSeq(Current, LAMBDA e : EventsFor(e.user_id) # {})

C5_Witness ==
    /\ Diffed
    /\ Snapshots
    /\ Len(pbs) >= 2
    /\ pbs[1].new = Current[1]
    /\ pbs[2].new = Current[2]

\* C6 (disappearance is not reported): a participant of the baseline who is
\* not in the current snapshot is named by no event, and every event's current
\* entry is an entry of the current snapshot.
C6_NoDisappearance ==
    Diffed =>
        /\ \A u \in UsersOf(Baseline) \ UsersOf(Current) : EventsNaming(u) = {}
        /\ \A k \in 1..Len(pbs) : \E j \in 1..Len(Current) : pbs[k].new = Current[j]

C6_Witness ==
    /\ Diffed
    /\ UsersOf(Baseline) \ UsersOf(Current) # {}
    /\ pbs # <<>>

-----------------------------------------------------------------------------
(* The cache file on its own: SpecCodec draws a leaderboard, saves it with  *)
(* Leaderboard::cache (which may fail and leave the file cut short), lets a *)
(* byte of the file be damaged, and loads it with Leaderboard::from_cache.  *)

\* A name one byte too long for its length prefix.
LongName == [i \in 1..256 |-> 97]

\* An ordinary row; a row with a two-byte character and the widest rank; a row
\* whose name does not fit.
CodecEntries ==
    { Entry(1, <<97>>, 1, 1, F410),
      Entry(65535, <<195, 169>>, 70000, 16777217, F399),
      Entry(3, LongName, 3, 3, F400) }

\* A whole number of seconds, and an instant as SystemTime::now() gives it.
CodecTimestamps == {Duration(600, 0), Duration(1700000000, 500000000)}

RECURSIVE ListsOver(_, _)
ListsOver(S, n) ==
    IF n = 0 THEN {<<>>}
    ELSE {Append(s, e) : s \in ListsOver(S, n - 1), e \in S}

\* One entry fewer than the file holds, as many, one more.
CodecInputs ==
    {Leaderboard(t, es) :
        t \in CodecTimestamps,
        es \in UNION {ListsOver(CodecEntries, n) :
                        n \in (CacheEntries - 1)..(CacheEntries + 1)}}

InitCodec ==
    /\ pc = "save"
    /\ old = None
    /\ \E lb \in CodecInputs : new = Some(lb)
    /\ Idle

\* new.cache().await
Save ==
    /\ pc = "save"
    /\ \E r \in CacheOutcomes(Unwrap(new), disk) :
          /\ saved' = r.tag
          /\ disk' = r.disk
          /\ pc' = IF r.tag = "ok" THEN "saved" ELSE "failed"
    /\ UNCHANGED <<old, new, pbs, idx, loaded, site, sent, cycles, exit, hook>>

\* A damaged file loses its end as well.  (A file that is only cut short is
\* what Save leaves when it fails.)
Cut ==
    /\ pc = "damaged"
    /\ \E k \in 0..(Len(Unwrap(disk)) - 1) : disk' = Some(SubSeq(Unwrap(disk), 1, k))
    /\ pc' = "cut"
    /\ UNCHANGED <<old, new, pbs, idx, loaded, saved, site, sent, cycles, exit, hook>>

\* A byte of the first name is replaced by 0xFF, which no UTF-8 text contains.
Damage ==
    /\ pc = "saved"
    /\ LET b == Unwrap(disk)
       IN  \E k \in 12..(11 + b[11]) :
              /\ k <= Len(b)
              /\ disk' = Some([b EXCEPT ![k] = 255])
    /\ pc' = "damaged"
    /\ UNCHANGED <<old, new, pbs, idx, loaded, saved, site, sent, cycles, exit, hook>>

\* Leaderboard::from_cache().await
Load ==
    /\ pc \in {"saved", "cut", "damaged", "failed"}
    /\ loaded' = from_cache(disk)
    /\ pc' = IF pc = "saved" THEN "reloaded" ELSE "loaded"
    /\ UNCHANGED <<old, new, pbs, idx, disk, saved, site, sent, cycles, exit, hook>>

NextCodec == Save \/ Cut \/ Damage \/ Load

SpecCodec == InitCodec /\ [][NextCodec]_vars

\* What the properties of the codec speak of.
Saved == Unwrap(new)
NamesFit(lb) == \A i \in 1..Len(lb.entries) : Len(lb.entries[i].name) <= 255

\* C7 (codec round trip): a leaderboard of exactly CacheEntries entries whose
\* names are at most 255 bytes, saved with cache and loaded with from_cache,
\* comes back equal in every field, the timestamp included.
C7_RoundTrip ==
    (/\ pc = "reloaded"
     /\ Len(Saved.entries) = CacheEntries
     /\ NamesFit(Saved))
    => loaded = [tag |-> "ok", lb |-> Some(Saved)]

\* What does hold of the round trip: the entries come back as they were, and
\* the timestamp comes back cut to whole seconds.
RoundTripToTheSecond ==
    (/\ pc = "reloaded"
     /\ Len(Saved.entries) = CacheEntries
     /\ NamesFit(Saved))
    => loaded = [tag |-> "ok",
                 lb |-> Some(Leaderboard(Duration(Saved.timestamp.secs, 0),
                                         Saved.entries))]

\* Where a reader that follows the file's layout from position p, with `left`
\* entries to go, stops: "end" when the bytes run out under it, "text" when a
\* name it has read is not text, "full" when it has read every entry.
RECURSIVE Walk(_, _, _)
Walk(b, p, left) ==
    IF left = 0 THEN "full"
    ELSE IF p + 3 > Len(b) THEN "end"
    ELSE LET q == p + 3 + b[p + 3]
         IN  IF q > Len(b) THEN "end"
             ELSE IF ~Utf8Valid(SubSeq(b, p + 4, q)) THEN "text"
             ELSE IF q + 12 > Len(b) THEN "end"
             ELSE Walk(b, q + 12, left - 1)

\* The file ends before CacheEntries whole entries have been read.
EndsEarly(b) == Len(b) < 8 \/ Walk(b, 8, CacheEntries) = "end"

\* C8 (truncated cache): when the file ends before CacheEntries entries have
\* been read, from_cache returns an error, not a panic and not a leaderboard;
\* and a leaderboard it returns never has fewer than CacheEntries entries.
C8_TruncatedIsError ==
    pc \in {"loaded", "reloaded"} =>
        /\ (IsSome(disk) /\ EndsEarly(Unwrap(disk)))
              => loaded = [tag |-> "err", lb |-> None]
        /\ loaded.tag = "ok" => Len(Unwrap(loaded.lb).entries) = CacheEntries

\* A file cut in the middle of its second entry.
C8_Witness ==
    /\ pc = "loaded"
    /\ IsSome(disk)
    /\ EndsEarly(Unwrap(disk))
    /\ LET first == EntryRead(Unwrap(disk), 8)
       IN  /\ first.tag = "ok"
           /\ Len(Unwrap(disk)) > first.pos + 3
    /\ loaded.tag = "err"

-----------------------------------------------------------------------------
(* main (main.rs:4-46)                                                      *)

\* The row the site shows at place k for participant u with run r.
Row(k, u, r) == Entry(k, NameOf(u), u, r, IF r = 1 THEN F399 ELSE F410)

\* The board that lists the participants us in this order, participant 1 with
\* run r1 and the others with run 1.
Board(us, r1) == [k \in 1..Len(us) |-> Row(k, us[k], IF us[k] = 1 THEN r1 ELSE 1)]

\* The boards a capture can return: a full board; the same with a new run of
\* participant 1; the same participants in the opposite order; participant 1
\* gone and another there; a board one row short; a board one row long.
SiteBoards ==
    { Board([k \in 1..CacheEntries |-> k], 1),
      Board([k \in 1..CacheEntries |-> k], 2),
      Board([k \in 1..CacheEntries |-> CacheEntries + 1 - k], 1),
      Board([k \in 1..CacheEntries |-> k + 1], 1),
      Board([k \in 1..(CacheEntries - 1) |-> k], 1),
      Board([k \in 1..(CacheEntries + 1) |-> k], 1) }

\* SystemTime::now() at the capture of iteration c (0: at startup).
Now(c) == Duration(1000 + 600 * c, 500000000)

\* Every way Leaderboard::from_site can end: Err, Ok(None), Ok(Some(board)),
\* or the panic of lb.rs:78-80 when the clock reads a time before UNIX_EPOCH
\* (`expect("Time went backwards")`), which comes before the GET.
SiteOutcomes(c) ==
    {[tag |-> "err", lb |-> None], [tag |-> "noresult", lb |-> None],
     [tag |-> "panic", lb |-> None]}
    \cup {[tag |-> "ok", lb |-> Some(Leaderboard(Now(c), b))] : b \in SiteBoards}

\* Every way hook.send can end.
HookOutcomes == {"ok", "err"}

\* The file an earlier run left: none; a complete one; one cut short anywhere;
\* one with a byte in its first name that is not text, whole or cut short.
GoodFile ==
    CacheBytes(Leaderboard(from_secs(400), Board([k \in 1..CacheEntries |-> k], 1)),
               CacheEntries)
BadTextFile == [GoodFile EXCEPT ![12] = 255]
InitialDisks ==
    {None} \cup {Some(b) : b \in Prefixes(GoodFile) \cup Prefixes(BadTextFile)}

Init ==
    /\ pc = "start"
    /\ old = None
    /\ new = None
    /\ pbs = <<>>
    /\ idx = 0
    /\ disk \in InitialDisks
    /\ loaded = [tag |-> "none", lb |-> None]
    /\ saved = "none"
    /\ site = "none"
    /\ sent = <<>>
    /\ cycles = 0
    /\ exit = "running"
    /\ hook = "none"

\* main.rs:8-13: let mut old = match from_cache().await { Ok(old) => old,
\* Err(e) => { println!(..); ... } }.  A panic inside from_cache ends the process.
LoadCache ==
    /\ pc = "start"
    /\ LET r == from_cache(disk)
       IN  /\ loaded' = r
           /\ IF r.tag = "ok"
              THEN old' = r.lb /\ pc' = "sleep" /\ exit' = exit
              ELSE IF r.tag = "err"
              THEN old' = old /\ pc' = "bootstrap" /\ exit' = exit
              ELSE old' = old /\ pc' = "done" /\ exit' = "utf8_panic"
    /\ UNCHANGED <<new, pbs, idx, disk, saved, site, sent, cycles, hook>>

\* main.rs:14-16: from_site().await?.expect(..)
BootstrapCapture ==
    /\ pc = "bootstrap"
    /\ \E r \in SiteOutcomes(0) :
          /\ site' = r.tag
          /\ new' = r.lb
          /\ IF r.tag = "ok" THEN pc' = "bootstrap_cache" /\ exit' = exit
             ELSE IF r.tag = "err" THEN pc' = "done" /\ exit' = "capture_error"
             ELSE IF r.tag = "panic" THEN pc' = "done" /\ exit' = "time_panic"
             ELSE pc' = "done" /\ exit' = "expect_panic"
    /\ UNCHANGED <<old, pbs, idx, disk, loaded, saved, sent, cycles, hook>>

\* main.rs:17-18: new.cache().await?; new
BootstrapCache ==
    /\ pc = "bootstrap_cache"
    /\ \E r \in CacheOutcomes(Unwrap(new), disk) :
          /\ saved' = r.tag
          /\ disk' = r.disk
          /\ IF r.tag = "ok"
             THEN old' = new /\ new' = None /\ pc' = "sleep" /\ exit' = exit
             ELSE /\ old' = old /\ new' = new /\ pc' = "done"
                  /\ exit' = IF r.tag = "err" THEN "cache_error" ELSE "index_panic"
    /\ UNCHANGED <<pbs, idx, loaded, site, sent, cycles, hook>>

\* main.rs:24-28: sleep(600 s); let Some(new) = from_site().await? else
\* { continue };
\* Poll that keeps the rows parsed before the bad one (filter_map where the
\* code collects into an Option) and goes on with them.
Poll_PartialUsed ==
    /\ pc = "sleep"
    /\ cycles < MaxCycles
    /\ cycles' = cycles + 1
    /\ \E r \in SiteOutcomes(cycles + 1) :
          /\ site' = r.tag
          /\ IF r.tag = "ok" THEN new' = r.lb /\ pc' = "diff" /\ exit' = exit
             ELSE IF r.tag = "err"
                  THEN new' = r.lb /\ pc' = "done" /\ exit' = "capture_error"
             ELSE IF r.tag = "panic"
                  THEN new' = r.lb /\ pc' = "done" /\ exit' = "time_panic"
             ELSE /\ new' = Some(Leaderboard(Now(cycles + 1),
                                    Board([k \in 1..(CacheEntries - 1) |-> k], 2)))
                  /\ pc' = "diff" /\ exit' = exit
    /\ UNCHANGED <<old, pbs, idx, disk, loaded, saved, sent, hook>>

Poll ==
    /\ pc = "sleep"
    /\ cycles < MaxCycles
    /\ cycles' = cycles + 1
    /\ \E r \in SiteOutcomes(cycles + 1) :
          /\ site' = r.tag
          /\ new' = r.lb
          /\ IF r.tag = "ok" THEN pc' = "diff" /\ exit' = exit
             ELSE IF r.tag = "err" THEN pc' = "done" /\ exit' = "capture_error"
             ELSE IF r.tag = "panic" THEN pc' = "done" /\ exit' = "time_panic"
             ELSE pc' = "sleep" /\ exit' = exit
    /\ UNCHANGED <<old, pbs, idx, disk, loaded, saved, sent, hook>>

\* main.rs:33-34: if pbs.is_empty() { println!("nothing to do"); } and the end
\* of the loop body, where new and pbs are dropped.
\* The empty branch with the else branch's new.cache(); old = new; added.
NothingToDo_Persist ==
    /\ pc = "diffed"
    /\ cycles > 0
    /\ pbs = <<>>
    /\ \E r \in CacheOutcomes(Unwrap(new), disk) :
          /\ saved' = r.tag
          /\ disk' = r.disk
          /\ IF r.tag = "ok"
             THEN old' = new /\ new' = None /\ pc' = "sleep" /\ exit' = exit
             ELSE /\ old' = old /\ new' = new /\ pc' = "done"
                  /\ exit' = IF r.tag = "err" THEN "cache_error" ELSE "index_panic"
    /\ UNCHANGED <<pbs, idx, loaded, site, sent, cycles, hook>>

NothingToDo ==
    /\ pc = "diffed"
    /\ cycles > 0
    /\ pbs = <<>>
    /\ new' = None
    /\ pc' = "sleep"
    /\ UNCHANGED <<old, pbs, idx, disk, loaded, saved, site, sent, cycles, exit, hook>>

\* What the hook was handed: the event, its text (pb.to_string()), the cycle
\* and the baseline of that cycle.
Message(pb, c, base) == [pb |-> pb, text |-> fmt(pb), cycle |-> c, base |-> base]

\* main.rs:37-39: hook.send(&pb.to_string()).await? for the next pb.
Send ==
    /\ pc = "diffed"
    /\ cycles > 0
    /\ idx < Len(pbs)
    /\ \E r \in HookOutcomes :
          /\ hook' = r
          /\ IF r = "ok"
             THEN /\ sent' = Append(sent, Message(pbs[idx + 1], cycles, old))
                  /\ idx' = idx + 1
                  /\ pc' = pc
                  /\ exit' = exit
             ELSE /\ sent' = sent
                  /\ idx' = idx
                  /\ pc' = "done"
                  /\ exit' = "send_error"
    /\ UNCHANGED <<old, new, pbs, disk, loaded, saved, site, cycles>>

\* CacheNew without `old = new`: the cache is written, the baseline stays.
CacheNew_Stale ==
    /\ pc = "diffed"
    /\ cycles > 0
    /\ pbs # <<>>
    /\ idx = Len(pbs)
    /\ \E r \in CacheOutcomes(Unwrap(new), disk) :
          /\ saved' = r.tag
          /\ disk' = r.disk
          /\ IF r.tag = "ok"
             THEN /\ old' = old /\ new' = None /\ pbs' = <<>> /\ idx' = 0
                  /\ pc' = "sleep" /\ exit' = exit
             ELSE /\ old' = old /\ new' = new /\ pbs' = pbs /\ idx' = idx
                  /\ pc' = "done"
                  /\ exit' = IF r.tag = "err" THEN "cache_error" ELSE "index_panic"
    /\ UNCHANGED <<loaded, site, sent, cycles, hook>>

\* CacheNew placed before the loop over the pbs instead of after it.
CacheNew_BeforeSends ==
    /\ pc = "diffed"
    /\ cycles > 0
    /\ pbs # <<>>
    /\ idx = 0
    /\ \E r \in CacheOutcomes(Unwrap(new), disk) :
          /\ saved' = r.tag
          /\ disk' = r.disk
          /\ IF r.tag = "ok"
             THEN /\ old' = new /\ new' = None /\ pbs' = <<>> /\ idx' = 0
                  /\ pc' = "sleep" /\ exit' = exit
             ELSE /\ old' = old /\ new' = new /\ pbs' = pbs /\ idx' = idx
                  /\ pc' = "done"
                  /\ exit' = IF r.tag = "err" THEN "cache_error" ELSE "index_panic"
    /\ UNCHANGED <<loaded, site, sent, cycles, hook>>

\* main.rs:41-43: new.cache().await?; old = new; and the end of the loop body.
CacheNew ==
    /\ pc = "diffed"
    /\ cycles > 0
    /\ pbs # <<>>
    /\ idx = Len(pbs)
    /\ \E r \in CacheOutcomes(Unwrap(new), disk) :
          /\ saved' = r.tag
          /\ disk' = r.disk
          /\ IF r.tag = "ok"
             THEN /\ old' = new /\ new' = None /\ pbs' = <<>> /\ idx' = 0
                  /\ pc' = "sleep" /\ exit' = exit
             ELSE /\ old' = old /\ new' = new /\ pbs' = pbs /\ idx' = idx
                  /\ pc' = "done"
                  /\ exit' = IF r.tag = "err" THEN "cache_error" ELSE "index_panic"
    /\ UNCHANGED <<loaded, site, sent, cycles, hook>>

Next ==
    \/ LoadCache
    \/ BootstrapCapture
    \/ BootstrapCache
    \/ Poll
    \/ RunDiff
    \/ NothingToDo
    \/ Send
    \/ CacheNew

Spec == Init /\ [][Next]_vars

\* The cache file cannot be used: it is missing, it ends before CacheEntries
\* entries have been read, or a name in it is not text.
Missing(d) == ~IsSome(d)
Truncated(d) == IsSome(d) /\ EndsEarly(Unwrap(d))
BadText(d) == IsSome(d) /\ Len(Unwrap(d)) >= 8 /\ Walk(Unwrap(d), 8, CacheEntries) = "text"

\* C9 (decode error recovery at startup): when the cache file is missing,
\* truncated or holds a name that is not text, loading it gives an error and
\* startup goes on to capture a fresh baseline; the process does not end there.
C9_DecodeErrorRecovered ==
    [][(pc = "start" /\ (Missing(disk) \/ Truncated(disk) \/ BadText(disk)))
          => (loaded'.tag = "err" /\ pc' = "bootstrap" /\ exit' = "running")]_vars

\* What does hold at startup: a missing or truncated file is recovered from.
MissingOrTruncatedRecovered ==
    [][(pc = "start" /\ (Missing(disk) \/ Truncated(disk)))
          => (loaded'.tag = "err" /\ pc' = "bootstrap" /\ exit' = "running")]_vars

\* A capture of the polling loop (not the one at startup) that ends in Err.
PollCaptureFails == pc = "sleep" /\ cycles' = cycles + 1 /\ site' = "err"

\* C10 (capture error in a poll cycle): the cycle is skipped: nothing is sent,
\* the baseline and the cache file stay as they are, and the loop goes on to
\* its next cycle.
C10_CaptureErrorSkipsCycle ==
    [][PollCaptureFails
          => (/\ sent' = sent
              /\ old' = old
              /\ disk' = disk
              /\ pc' = "sleep"
              /\ exit' = "running")]_vars

\* What does hold of such a cycle: nothing is sent and the baseline and the
\* file stay as they are; but the process ends.
CaptureErrorEndsProcess ==
    [][PollCaptureFails
          => (/\ sent' = sent
              /\ old' = old
              /\ disk' = disk
              /\ pc' = "done"
              /\ exit' = "capture_error")]_vars

-----------------------------------------------------------------------------
(* The formatter on its own: SpecFmt draws one event and applies             *)
(* pb.to_string() to it.                                                     *)

\* Ranks of the events: the top, two next to each other, the last u16.
FmtRanks == {1, 2, 3, 65535}
FmtScores == {F399, F400, F410, FNaN}

\* The entries of one participant's events; run 1 is the previous run.
FmtEntries(run) == {Entry(k, NameOf(1), 1, run, sc) : k \in FmtRanks, sc \in FmtScores}

\* Every Pb the diff can build from them: previous absent or present.
FmtInputs ==
    {Pb(None, n) : n \in FmtEntries(2)}
    \cup {Pb(Some(o), n) : o \in FmtEntries(1), n \in FmtEntries(2)}

InitFmt ==
    /\ pc = "fmt"
    /\ old = None
    /\ new = None
    /\ pbs \in {<<pb>> : pb \in FmtInputs}
    /\ idx = 0
    /\ disk = None
    /\ loaded = [tag |-> "none", lb |-> None]
    /\ saved = "none"
    /\ site = "none"
    /\ sent = <<>>
    /\ cycles = 0
    /\ exit = "running"
    /\ hook = "none"

\* pb.to_string()
Format ==
    /\ pc = "fmt"
    /\ sent' = <<Message(pbs[1], cycles, old)>>
    /\ idx' = 1
    /\ pc' = "fmted"
    /\ UNCHANGED <<old, new, pbs, disk, loaded, saved, site, cycles, exit, hook>>

NextFmt == Format

SpecFmt == InitFmt /\ [][NextFmt]_vars

\* What the properties of the formatter speak of.
Previous(m) == m.pb.old
Cur(m) == m.pb.new
IsBanner(l) == l.line \in {"NEW WORLD RECORD", "NEW 400"}
Banners(m) == SelectSeq(m.text, IsBanner)
HasLine(m, which) == \E i \in 1..Len(m.text) : m.text[i].line = which
Messages == {sent[i] : i \in 1..Len(sent)}

\* a <= b on f32: false when either is NaN.
F32Le(a, b) == ~F32IsNaN(a) /\ ~F32IsNaN(b) /\ ~F32Gt(a, b)

\* C14: banner precedence.  The text of an event with a previous entry has at
\* most one banner line; when the current rank is 1 that line is the world
\* record one and the 400 one is not there, whatever the scores; the text of
\* an event without a previous entry has no banner line.
C14_BannerPrecedence ==
    \A m \in Messages :
        /\ IsSome(Previous(m)) => Len(Banners(m)) <= 1
        /\ (IsSome(Previous(m)) /\ Cur(m).rank = 1)
              => (HasLine(m, "NEW WORLD RECORD") /\ ~HasLine(m, "NEW 400"))
        /\ ~IsSome(Previous(m)) => Banners(m) = <<>>

\* An event at rank 1 that also crosses 400 has been formatted.
C14_Witness ==
    \E m \in Messages :
        /\ IsSome(Previous(m))
        /\ Cur(m).rank = 1
        /\ F32Gt(Cur(m).score, F400)
        /\ F32Le(Unwrap(Previous(m)).score, F400)
        /\ Banners(m) = <<[line |-> "NEW WORLD RECORD", args |-> <<>>]>>

\* C15: for an event with a previous entry and a current rank other than 1,
\* the 400 banner is in the text exactly when current.score > 400.0 and
\* previous.score <= 400.0.
C15_FourHundredMilestone ==
    \A m \in Messages :
        (IsSome(Previous(m)) /\ Cur(m).rank # 1) =>
            (HasLine(m, "NEW 400")
               <=> (F32Gt(Cur(m).score, F400) /\ F32Le(Unwrap(Previous(m)).score, F400)))

\* What the code does: the previous score has to be strictly below 400.0.
FourHundredStrictlyBelow ==
    \A m \in Messages :
        (IsSome(Previous(m)) /\ Cur(m).rank # 1) =>
            (HasLine(m, "NEW 400")
               <=> (F32Gt(Cur(m).score, F400) /\ F32Gt(F400, Unwrap(Previous(m)).score)))

\* The rank line of a message (the text has exactly one).
RankLineOf(m) ==
    LET i == CHOOSE i \in 1..Len(m.text) : m.text[i].line \in {"rank", "rank gaining"}
    IN  m.text[i]

\* C16: for an event with a previous entry, the rank line shows a gain figure
\* exactly when previous.rank >= current.rank, the figure is previous.rank -
\* current.rank (0 for an unchanged rank), and with previous.rank <
\* current.rank the line only states the current rank: no negative and no
\* wrapped 16-bit figure is shown.
C16_RankGain ==
    \A m \in Messages :
        IsSome(Previous(m)) =>
            LET o == Unwrap(Previous(m))
                n == Cur(m)
            IN  IF o.rank >= n.rank
                THEN RankLineOf(m) =
                        [line |-> "rank gaining", args |-> <<n.rank, o.rank - n.rank>>]
                ELSE RankLineOf(m) = [line |-> "rank", args |-> <<n.rank>>]

\* An event of a participant who fell from rank 2 to rank 3 has been formatted.
C16_Witness ==
    \E m \in Messages :
        /\ IsSome(Previous(m))
        /\ Unwrap(Previous(m)).rank = 2
        /\ Cur(m).rank = 3
        /\ HasLine(m, "rank")

-----------------------------------------------------------------------------
(* The steady-state cycle (main.rs:22-45). *)

\* A step of the loop that captures and gets Ok(None).
PollNoResult == pc = "sleep" /\ cycles' = cycles + 1 /\ site' = "noresult"

\* C11: a steady-state capture that ends with no result skips the cycle: no
\* diff is computed, nothing is sent, the baseline and the cache file stay as
\* they are, no leaderboard is kept from the capture, and the loop is back at
\* its sleep.
C11_NoResultSkipsCycle ==
    [][PollNoResult =>
         /\ new' = None
         /\ pbs' = pbs
         /\ sent' = sent
         /\ old' = old
         /\ disk' = disk
         /\ pc' = "sleep"
         /\ exit' = "running"]_vars

C11_Witness ==
    /\ site = "noresult"
    /\ cycles > 0
    /\ pc = "sleep"
    /\ IsSome(old)
    /\ new = None

\* A step in which hook.send fails.
SendFails == pc = "diffed" /\ idx < Len(pbs) /\ hook' = "err"

\* C12: a send that fails does not stop the cycle from going on to persist
\* the new leaderboard, and the loop runs on: the process is still running
\* after the failed send.
C12_SendFailureDoesNotBlock ==
    [][SendFails => (pc' # "done" /\ exit' = "running")]_vars

\* What the code does: the failed send ends the process with nothing persisted.
SendFailureEndsProcess ==
    [][SendFails =>
         (pc' = "done" /\ exit' = "send_error" /\ old' = old /\ disk' = disk)]_vars

\* A step that ends a cycle whose capture succeeded.
CycleEnds == pc = "diffed" /\ cycles > 0 /\ pc' = "sleep"

\* The captured leaderboard is on disk and is the baseline after the step.
Persisted ==
    /\ old' = new
    /\ disk' = Some(CacheBytes(Unwrap(new), CacheEntries))

\* C13 as stated: every cycle whose capture succeeded ends with the captured
\* leaderboard written to the cache and made the baseline, whether or not the
\* diff produced an event.
C13_UnconditionalPersistence == [][CycleEnds => Persisted]_vars

\* C13 amended: the captured leaderboard is written and made the baseline only
\* in a cycle whose diff produced an event: such a cycle, when it ends, ends
\* with the leaderboard persisted; a cycle with an empty diff ends with the
\* cache and the baseline as they were; and no step of the loop changes the
\* baseline while the diff is empty.
C13_PersistenceOnlyWithEvents ==
    [][/\ (CycleEnds /\ pbs # <<>>) => Persisted
       /\ (CycleEnds /\ pbs = <<>>) => (old' = old /\ disk' = disk)
       /\ (cycles > 0 /\ old' # old) => (pc = "diffed" /\ pbs # <<>>)]_vars

\* A cycle with a successful capture has ended with nothing to do: the
\* baseline is still the one loaded at startup.
C13_Witness ==
    /\ pc = "sleep"
    /\ cycles = 1
    /\ site = "ok"
    /\ new = None
    /\ saved = "none"
    /\ loaded.tag = "ok"
    /\ old = loaded.lb
    /\ sent = <<>>

\* What a notification is about: the participant and the run.
Ach(e) == <<e.user_id, e.run_id>>
AchsOf(es) == {Ach(es[i]) : i \in 1..Len(es)}

\* C17 as stated: over the cycles of one process run no (user_id, run_id) is
\* handed to the hook twice, also when the participant was absent from some
\* captured leaderboards in between.
C17_NoRepeatedNotification ==
    \A i, j \in 1..Len(sent) :
        i < j => Ach(sent[i].pb.new) # Ach(sent[j].pb.new)

\* C17 amended: a (user_id, run_id) is handed to the hook a second time only
\* if the second event was diffed against a baseline that was captured after
\* the first notification and does not hold that (user_id, run_id); while the
\* baseline holds it, it is not sent again.
C17_RepeatOnlyAfterAbsence ==
    \A i, j \in 1..Len(sent) :
        (i < j /\ Ach(sent[i].pb.new) = Ach(sent[j].pb.new)) =>
            LET b == Unwrap(sent[j].base)
            IN  /\ \E c \in (sent[i].cycle + 1)..(sent[j].cycle - 1) :
                      b.timestamp = Now(c)
                /\ Ach(sent[j].pb.new) \notin AchsOf(b.entries)

\* A participant left the board, came back with the same run and was
\* announced a second time.
C17_Witness ==
    \E i, j \in 1..Len(sent) :
        /\ i < j
        /\ Ach(sent[i].pb.new) = Ach(sent[j].pb.new)
        /\ sent[j].pb.old = None
        /\ sent[i].cycle < sent[j].cycle

\* The last Len(pbs) messages the hook accepted are the pbs, in order.
AllDelivered ==
    /\ Len(sent) >= Len(pbs)
    /\ \A k \in 1..Len(pbs) : sent[Len(sent) - Len(pbs) + k].pb = pbs[k]

\* C18: in the loop the cache file and the baseline change only in a step
\* taken after every pb of the diff was accepted by the hook; a step in which
\* a send fails leaves both as they were and ends the process.
C18_BaselineAfterDelivery ==
    [][/\ (cycles > 0 /\ (old' # old \/ disk' # disk))
            => (pc = "diffed" /\ pbs # <<>> /\ idx = Len(pbs) /\ AllDelivered)
       /\ SendFails => (old' = old /\ disk' = disk /\ pc' = "done")]_vars

\* A cycle has sent its pbs and then replaced the baseline loaded at startup.
C18_Witness ==
    /\ pc = "sleep"
    /\ cycles > 0
    /\ saved = "ok"
    /\ sent # <<>>
    /\ loaded.tag = "ok"
    /\ old # loaded.lb
    /\ disk = Some(CacheBytes(Unwrap(old), CacheEntries))

\* The loop is at its sleep: startup or a cycle has just been completed.
CycleBoundary == pc = "sleep" /\ exit = "running"

\* Decoding the cache file gives the entries of the baseline, in order.
CacheAgrees ==
    LET r == from_cache(disk)
    IN  r.tag = "ok" /\ Unwrap(r.lb).entries = Unwrap(old).entries

\* C19: at every cycle boundary the cache file decodes to the entries of the
\* in-memory baseline, in the same order, whatever the captures returned.
C19_CacheAgreesWithBaseline == CycleBoundary => CacheAgrees

\* What the code gives: agreement when the baseline has as many entries as the
\* cache format holds.
CacheAgreesForFullBoards ==
    (CycleBoundary /\ Len(Unwrap(old).entries) = CacheEntries) => CacheAgrees

\* C20: Leaderboard::cache of a captured leaderboard, whatever its number of
\* entries, ends with Ok or an io::Error: it never panics.
C20_SaveIsTotal == saved # "panic"

\* What the code gives: no panic for a leaderboard with enough entries.
SaveIsTotalFromFull ==
    [][(saved' = "panic" /\ saved # "panic") =>
          Len(Unwrap(new).entries) < CacheEntries]_vars

====
